---------------------------- MODULE Spec2Model ----------------------------
(* RecallAI retrieval pipeline: chunker, hash embedder, tenant-filtered     *)
(* vector index (a Chroma collection) with its lazily opened handle, the    *)
(* retrieval-augmented query endpoint, and the ingest and delete endpoints  *)
(* over the documents table.  Strings are sequences of one-character        *)
(* strings.                                                                 *)
EXTENDS Integers, Sequences, FiniteSets, TLC

(***************************************************************************)
(* Bounds of the model                                                     *)
(***************************************************************************)
MaxChunks == 2
MaxRecords == 2
MaxK == 2
NumSeeds == 2
DigestLen == 1
MaxTextLen == 4
MaxChunkSize == 3
NumThreads == 3
MaxContentLen == 2
ChunkSizeScaled == 2
OverlapScaled == 1
MaxIndexed == 3
NumSignups == 2
MaxUsers == 2

Users == {1, 2}
Docs == {1, 2}
Ks == (-1)..MaxK
Alphabet == {"a", "b"}
Texts == {<<c>> : c \in Alphabet}
TextLists == UNION {[1..n -> Texts] : n \in 0..MaxChunks}

\* collection: the records of the Chroma collection, in insertion order.
\* ret: the last call on the store and its outcome.
\* cleared: history; the tenants whose delete_user_vectors completed with no
\*          add_vectors call for them since.
\* collection2, ret2: the store and the last call of a second run.
\* ch_pc, ch_text, ch_size, ch_overlap, ch_start, ch_chunks: one call of
\*          simple_chunker: where it stands, its arguments and its locals.
\* GROQ_API_KEY: settings.GROQ_API_KEY, fixed when the process starts.
\* q_pc, q: one request to search_memory: where it stands, and its arguments,
\*          locals and response.
\* cls_client, cls_collection: VectorStore._client and VectorStore._collection.
\* gc: the calls of get_collection, one per thread: where each stands and
\*          what it returned.
\* opened: history; how many clients and collections were created.
\* db_documents: the rows of the documents table of the metadata store.
\* ing: the request to ingest_document on the event loop.
\* del: the request to delete_document or delete_all_documents on a worker
\*          thread.
\* batches: history; the id sets of the add_vectors calls whose records no
\*          delete has matched since.
\* users: the rows of the users table.
\* email_unique: whether the users table rejects a second row with an email
\*          it holds; fixed by the schema when the process starts.
\* su: the requests to create_user, one per worker thread.
\* lg: the last request to login_for_access_token and its answer.
\* registered: history; the credentials of the signups answered with success.
VARIABLES collection, ret, cleared, collection2, ret2,
          ch_pc, ch_text, ch_size, ch_overlap, ch_start, ch_chunks,
          GROQ_API_KEY, q_pc, q,
          cls_client, cls_collection, gc, opened,
          db_documents, ing, del, batches,
          users, email_unique, su, lg, registered

pairVars == <<collection2, ret2>>
chunkVars == <<ch_pc, ch_text, ch_size, ch_overlap, ch_start, ch_chunks>>
queryVars == <<GROQ_API_KEY, q_pc, q>>
handleVars == <<cls_client, cls_collection, gc, opened>>
ingestVars == <<db_documents, ing, del, batches>>
authVars == <<users, email_unique, su, lg, registered>>
vars == <<collection, ret, cleared, collection2, ret2,
          ch_pc, ch_text, ch_size, ch_overlap, ch_start, ch_chunks,
          GROQ_API_KEY, q_pc, q,
          cls_client, cls_collection, gc, opened,
          db_documents, ing, del, batches,
          users, email_unique, su, lg, registered>>

(***************************************************************************)
(* EmbeddingService (services/embedding.py)                                *)
(***************************************************************************)
CharCode(c) == IF c = "a" THEN 1 ELSE 2

RECURSIVE CodeSum(_)
CodeSum(text) == IF text = <<>> THEN 0 ELSE CharCode(Head(text)) + CodeSum(Tail(text))

\* hashlib.sha256(f"{seed}:{text}").digest()[i]: a deterministic byte of the
\* seed and the text; the stand-in digest only produces the bytes 0 and 255.
hash_byte(seed, text, i) == IF (seed + i + CodeSum(text)) % 2 = 0 THEN 255 ELSE 0

\* val = (byte / 255.0) * 2 - 1
rescale(byte) == (byte * 2 - 255) \div 255

\* The concatenation of the seeds' groups.  Every component is -1 or 1, so the
\* norm is the same for every text and the unit vector is this vector divided
\* by that norm; the vector is kept unscaled and EmbDim carries the norm.
text_to_embedding(text) ==
    [n \in 1..(NumSeeds * DigestLen) |->
        rescale(hash_byte((n - 1) \div DigestLen, text, (n - 1) % DigestLen))]

embed_query(text) == text_to_embedding(text)

embed_documents(texts) == [i \in 1..Len(texts) |-> text_to_embedding(texts[i])]

EmbDim == NumSeeds * DigestLen

RECURSIVE DotFrom(_, _, _)
DotFrom(a, b, i) == IF i > Len(a) THEN 0 ELSE a[i] * b[i] + DotFrom(a, b, i + 1)

\* Cosine distance 1 - a.b of two unit vectors, in units of 1/EmbDim.
CosineDistance(a, b) == EmbDim - DotFrom(a, b, 1)

(***************************************************************************)
(* The Chroma collection "user_memories" (services/vector_store.py)        *)
(***************************************************************************)
\* Faulty variant: chunk indexes counted from 1.
MetadataOneBased(user_id, doc_id, i) ==
    [user_id |-> user_id, doc_id |-> doc_id, chunk_index |-> i + 1]

\* {"user_id": user_id, "doc_id": doc_id, "chunk_index": i}
Metadata(user_id, doc_id, i) == [user_id |-> user_id, doc_id |-> doc_id, chunk_index |-> i]

\* uuid.uuid4(), the i-th of one add_vectors call: a component that no stored
\* id with the same user and document prefix carries.
uuid4(col, user_id, doc_id, i) ==
    Cardinality({j \in 1..Len(col) : col[j].id[1] = user_id /\ col[j].id[2] = doc_id}) + i

NoResults == [ids |-> <<>>, distances |-> <<>>, documents |-> <<>>, metadatas |-> <<>>]

\* The last call on the store: its arguments (for add_vectors the lengths of
\* texts and embeddings) and its outcome.  For delete_document, removed is
\* the number of records the call removed and repeat_of that of the call
\* before it when that was a delete_document with the same arguments
\* (-1 otherwise).
NoRet == [op |-> "none", user_id |-> 0, doc_id |-> 0, ntexts |-> 0, nembeddings |-> 0,
          query |-> <<>>, k |-> 0, status |-> "ok", results |-> NoResults,
          removed |-> 0, repeat_of |-> -1]

\* Faulty variant of a where filter: it matches every record.
WhereUnscoped(r, user_id) == TRUE

\* search: where={"user_id": user_id}
SearchWhere(r, user_id) == r.metadata.user_id = user_id

\* Faulty variant: the filter of delete_document without its user_id clause.
DeleteDocumentWhereDocOnly(r, user_id, doc_id) == r.metadata.doc_id = doc_id

\* delete_document: where={"$and": [{"user_id": user_id}, {"doc_id": doc_id}]}
DeleteDocumentWhere(r, user_id, doc_id) ==
    r.metadata.user_id = user_id /\ r.metadata.doc_id = doc_id

\* delete_user_vectors: where={"user_id": user_id}
DeleteUserWhere(r, user_id) == r.metadata.user_id = user_id

\* A row after the rows that are not farther: equal distances keep insertion order.
RECURSIVE InsertByDistance(_, _)
InsertByDistance(sorted, row) ==
    IF sorted = <<>> THEN <<row>>
    ELSE IF row.distance < Head(sorted).distance THEN <<row>> \o sorted
    ELSE <<Head(sorted)>> \o InsertByDistance(Tail(sorted), row)

RECURSIVE SortByDistance(_, _)
SortByDistance(rows, i) ==
    IF i = 0 THEN <<>> ELSE InsertByDistance(SortByDistance(rows, i - 1), rows[i])

\* include=["documents", "metadatas", "distances"], with the ids: one list each.
Columns(top) ==
    [ids |-> [n \in DOMAIN top |-> top[n].id],
     distances |-> [n \in DOMAIN top |-> top[n].distance],
     documents |-> [n \in DOMAIN top |-> top[n].document],
     metadatas |-> [n \in DOMAIN top |-> top[n].metadata]]

\* collection.query: the filtered records by ascending distance (records at
\* the same distance in insertion order), at most n_results of them.  Chroma
\* validates n_results and raises for n_results <= 0.
collection_query(col, query_vector, n_results, user_id) ==
    LET F == SelectSeq(col, LAMBDA r : SearchWhere(r, user_id))
        rows == [i \in 1..Len(F) |->
                    [id |-> F[i].id,
                     distance |-> CosineDistance(query_vector, F[i].embedding),
                     document |-> F[i].document,
                     metadata |-> F[i].metadata]]
        m == IF n_results < Len(F) THEN n_results ELSE Len(F)
    IN  IF n_results <= 0
        THEN [status |-> "error", results |-> NoResults]
        ELSE [status |-> "ok",
              results |-> Columns(SubSeq(SortByDistance(rows, Len(rows)), 1, m))]

\* collection.add: validates that ids, documents, metadatas and embeddings
\* have one length, then appends one record per id.
collection_add(col, ids, documents, embeddings, metadatas) ==
    IF Len(embeddings) # Len(ids)
    THEN [status |-> "error", collection |-> col]
    ELSE [status |-> "ok",
          collection |-> col \o [i \in 1..Len(ids) |->
                                    [id |-> ids[i],
                                     document |-> documents[i],
                                     embedding |-> embeddings[i],
                                     metadata |-> metadatas[i]]]]

\* VectorStore.add_vectors
add_vectors(col, user_id, doc_id, texts, embeddings) ==
    LET count == Len(texts)
        ids == [i \in 1..count |-> <<user_id, doc_id, uuid4(col, user_id, doc_id, i)>>]
        metadatas == [i \in 1..count |-> Metadata(user_id, doc_id, i - 1)]
    IN  IF count = 0
        THEN [status |-> "ok", collection |-> col]
        ELSE collection_add(col, ids, texts, embeddings, metadatas)

\* VectorStore.search
search(col, user_id, query_vector, k) == collection_query(col, query_vector, k, user_id)

\* Faulty variant: a delete that removes the first matching record only.
delete_document_first_match(col, user_id, doc_id) ==
    LET hits == {i \in 1..Len(col) : DeleteDocumentWhere(col[i], user_id, doc_id)}
    IN  IF hits = {} THEN col
        ELSE LET first == CHOOSE i \in hits : \A j \in hits : i <= j
             IN  SubSeq(col, 1, first - 1) \o SubSeq(col, first + 1, Len(col))

\* VectorStore.delete_document
delete_document(col, user_id, doc_id) ==
    SelectSeq(col, LAMBDA r : ~DeleteDocumentWhere(r, user_id, doc_id))

\* Faulty variant: a delete without its where filter.
delete_user_vectors_unscoped(col, user_id) == <<>>

\* VectorStore.delete_user_vectors
delete_user_vectors(col, user_id) ==
    SelectSeq(col, LAMBDA r : ~DeleteUserWhere(r, user_id))

(***************************************************************************)
(* The chunker (api/v1/endpoints/ingest.py)                                *)
(***************************************************************************)
\* def simple_chunker(text, chunk_size: int = 500, overlap: int = 50)
DefaultChunkSize == 500
DefaultOverlap == 50

StringsUpTo(n) == UNION {[1..m -> Alphabet] : m \in 0..n}

\* A slice bound of Python: negative bounds count from the end, and the bound
\* is clamped into 0..len.
SliceIndex(i, len) ==
    LET j == IF i < 0 THEN i + len ELSE i
    IN  IF j < 0 THEN 0 ELSE IF j > len THEN len ELSE j

\* text[start:end]
Slice(text, start, end) ==
    SubSeq(text, SliceIndex(start, Len(text)) + 1, SliceIndex(end, Len(text)))

\* Faulty variant: the cursor does not step back by the overlap.
AdvanceNoOverlap(start, chunk_size, overlap) == start + chunk_size

\* start += chunk_size - overlap
Advance(start, chunk_size, overlap) == start + (chunk_size - overlap)

\* chunk = text[start:end] with end = start + chunk_size
Window(text, start, chunk_size) == Slice(text, start, start + chunk_size)

(***************************************************************************)
(* The parts at rest: an empty collection, no call of the chunker, no      *)
(* request in flight                                                       *)
(***************************************************************************)
StoreInit ==
    /\ collection = <<>>
    /\ ret = NoRet
    /\ cleared = {}

PairIdle ==
    /\ collection2 = <<>>
    /\ ret2 = NoRet

ChunkerIdle ==
    /\ ch_pc = "idle"
    /\ ch_text = <<>>
    /\ ch_size = DefaultChunkSize
    /\ ch_overlap = DefaultOverlap
    /\ ch_start = 0
    /\ ch_chunks = <<>>

\* No request in flight; GROQ_API_KEY: str = os.getenv("GROQ_API_KEY", "")
NoQuery == [user_id |-> 0, query |-> <<>>, k |-> 0, query_vector |-> <<>>,
            formatted_results |-> <<>>, calls |-> 0, outcome |-> "none",
            status |-> 0, answer |-> "", sources |-> <<>>]

QueryIdle ==
    /\ GROQ_API_KEY = ""
    /\ q_pc = "idle"
    /\ q = NoQuery

\* _client = None; _collection = None; no thread inside get_collection.
\* Clients and collection handles are numbered from 1 as they are created.
None == 0

Threads == 1..NumThreads

NoCall == [pc |-> "idle", value |-> None]

HandleIdle ==
    /\ cls_client = None
    /\ cls_collection = None
    /\ gc = [t \in Threads |-> NoCall]
    /\ opened = [clients |-> 0, collections |-> 0]

\* An empty documents table; no ingest and no delete request in flight.
NoIngest == [pc |-> "idle", user_id |-> 0, content |-> <<>>, doc_id |-> 0, status |-> 0]

NoDelete == [pc |-> "idle", kind |-> "none", user_id |-> 0, doc_id |-> 0,
             status |-> 0, detail |-> ""]

IngestIdle ==
    /\ db_documents = {}
    /\ ing = NoIngest
    /\ del = NoDelete
    /\ batches = {}

\* An empty users table; no signup in flight and no login answered yet.
SignupWorkers == 1..NumSignups

NoSignup == [pc |-> "idle", email |-> "", password |-> "", status |-> 0, detail |-> "",
             created |-> 0]

\* known: history; whether a signup with these credentials had succeeded when
\* the login was made.
NoLogin == [email |-> "", password |-> "", status |-> 0, known |-> FALSE]

AuthIdle ==
    /\ users = {}
    /\ email_unique = TRUE
    /\ su = [t \in SignupWorkers |-> NoSignup]
    /\ lg = NoLogin
    /\ registered = {}

(***************************************************************************)
(* One call of simple_chunker, pass by pass                                *)
(***************************************************************************)
\* The iterations the model follows: one more than any text needs when the
\* cursor advances.
MaxIterations == MaxTextLen + 1

\* if not text: return [];  chunks = []; start = 0
ChunkerEnter ==
    /\ ch_pc = "called"
    /\ IF ch_text = <<>>
       THEN /\ ch_pc' = "returned"
            /\ UNCHANGED <<ch_start, ch_chunks>>
       ELSE /\ ch_pc' = "loop"
            /\ ch_start' = 0
            /\ ch_chunks' = <<>>
    /\ UNCHANGED <<ch_text, ch_size, ch_overlap, collection, ret, cleared, pairVars, queryVars,
                   handleVars, ingestVars, authVars>>

\* One pass of: while start < len(text)
ChunkerIterate ==
    /\ ch_pc = "loop"
    /\ ch_start < Len(ch_text)
    /\ Len(ch_chunks) < MaxIterations
    /\ ch_chunks' = Append(ch_chunks, Window(ch_text, ch_start, ch_size))
    /\ ch_start' = Advance(ch_start, ch_size, ch_overlap)
    /\ UNCHANGED <<ch_pc, ch_text, ch_size, ch_overlap, collection, ret, cleared, pairVars, queryVars,
                   handleVars, ingestVars, authVars>>

\* The loop condition fails: return chunks
ChunkerReturn ==
    /\ ch_pc = "loop"
    /\ ~(ch_start < Len(ch_text))
    /\ ch_pc' = "returned"
    /\ UNCHANGED <<ch_text, ch_size, ch_overlap, ch_start, ch_chunks,
                   collection, ret, cleared, pairVars, queryVars, handleVars, ingestVars,
                   authVars>>

\* A call of simple_chunker with any text, chunk size and overlap.
InitChunk ==
    /\ AuthIdle
    /\ StoreInit
    /\ PairIdle
    /\ QueryIdle
    /\ HandleIdle
    /\ IngestIdle
    /\ ch_pc = "called"
    /\ ch_text \in StringsUpTo(MaxTextLen)
    /\ ch_size \in 1..MaxChunkSize
    /\ ch_overlap \in 0..MaxChunkSize
    /\ ch_start = 0
    /\ ch_chunks = <<>>

NextChunk ==
    \/ ChunkerEnter
    \/ ChunkerIterate
    \/ ChunkerReturn

SpecChunk == InitChunk /\ [][NextChunk]_vars

\* The loop is never suspended: a call that can take a step takes it.
SpecChunkFair == SpecChunk /\ WF_vars(NextChunk)

(***************************************************************************)
(* Calls on the store, by any tenant                                       *)
(***************************************************************************)
\* The embeddings a caller hands to add_vectors: n of them, those of the texts
\* as far as the texts go.
EmbeddingOf == [t \in Texts |-> text_to_embedding(t)]

EmbeddingsFor(texts, n) ==
    [i \in 1..n |-> EmbeddingOf[IF i <= Len(texts) THEN texts[i] ELSE <<"a">>]]

\* The lengths of embeddings tried with a list of texts: equal, one short, one long.
EmbeddingCounts(texts) == {n \in {Len(texts) - 1, Len(texts), Len(texts) + 1} : n >= 0}

Add(user_id, doc_id, texts, embeddings) ==
    /\ Len(collection) + Len(texts) <= MaxRecords
    /\ \E r \in {add_vectors(collection, user_id, doc_id, texts, embeddings)} :
          /\ collection' = r.collection
          /\ ret' = [NoRet EXCEPT !.op = "add", !.user_id = user_id, !.doc_id = doc_id,
                                  !.ntexts = Len(texts), !.nembeddings = Len(embeddings),
                                  !.status = r.status]
    /\ cleared' = cleared \ {user_id}
    /\ UNCHANGED <<pairVars, chunkVars, queryVars, handleVars, ingestVars, authVars>>

Search(user_id, query, k) ==
    /\ \E r \in {search(collection, user_id, embed_query(query), k)} :
          ret' = [NoRet EXCEPT !.op = "search", !.user_id = user_id, !.query = query,
                               !.k = k, !.status = r.status, !.results = r.results]
    /\ UNCHANGED <<collection, cleared, pairVars, chunkVars, queryVars, handleVars, ingestVars,
                   authVars>>

DeleteDocument(user_id, doc_id) ==
    /\ collection' = delete_document(collection, user_id, doc_id)
    /\ ret' = [NoRet EXCEPT !.op = "delete_document", !.user_id = user_id, !.doc_id = doc_id,
                            !.removed = Len(collection) - Len(collection'),
                            !.repeat_of = IF /\ ret.op = "delete_document"
                                             /\ ret.user_id = user_id
                                             /\ ret.doc_id = doc_id
                                          THEN ret.removed ELSE -1]
    /\ UNCHANGED <<cleared, pairVars, chunkVars, queryVars, handleVars, ingestVars, authVars>>

DeleteUserVectors(user_id) ==
    /\ collection' = delete_user_vectors(collection, user_id)
    /\ ret' = [NoRet EXCEPT !.op = "delete_user_vectors", !.user_id = user_id]
    /\ cleared' = cleared \cup {user_id}
    /\ UNCHANGED <<pairVars, chunkVars, queryVars, handleVars, ingestVars, authVars>>

Init ==
    /\ AuthIdle
    /\ StoreInit
    /\ PairIdle
    /\ ChunkerIdle
    /\ QueryIdle
    /\ HandleIdle
    /\ IngestIdle

Next ==
    \/ \E u \in Users, d \in Docs, t \in TextLists :
          \E n \in EmbeddingCounts(t) : Add(u, d, t, EmbeddingsFor(t, n))
    \/ \E u \in Users, qt \in Texts, k \in Ks : Search(u, qt, k)
    \/ \E u \in Users, d \in Docs : DeleteDocument(u, d)
    \/ \E u \in Users : DeleteUserVectors(u)

Spec == Init /\ [][Next]_vars

(***************************************************************************)
(* The query endpoint search_memory (api/v1/endpoints/query.py)            *)
(***************************************************************************)
AnswerNoKey == "Groq API Key not set. Returning search results only."
AnswerNothingFound == "I couldn't find any relevant memories matching your query."
AnswerGenerationFailed ==
    "I found some memories, but I couldn't generate a summary right now. Error: ..."
AnswerCompletion == "chat_completion.choices[0].message.content"

\* How the completion goes: it answers; the client cannot be built; the call
\* raises (network, auth, quota, timeout); the response has no usable choice.
Completions == {"ok", "client_error", "api_error", "malformed_response"}

\* The SearchResult list built from Chroma's columns.
FormatResults(results) ==
    [i \in 1..Len(results.ids) |->
        [document_id |-> results.metadatas[i].doc_id,
         score |-> results.distances[i],
         content_snippet |-> results.documents[i],
         metadata |-> results.metadatas[i]]]

\* Faulty variant: the empty result is tested before the API key.
BranchResultsFirst(key, formatted_results) ==
    IF formatted_results = <<>> THEN "NO_RESULTS"
    ELSE IF key = "" THEN "NO_COMPLETION_CONFIGURED"
    ELSE "SYNTHESIZING"

\* The branch taken once the results are formatted.
Branch(key, formatted_results) ==
    IF key = "" THEN "NO_COMPLETION_CONFIGURED"
    ELSE IF formatted_results = <<>> THEN "NO_RESULTS"
    ELSE "SYNTHESIZING"

\* Faulty variant: no except clause, the failure leaves the handler.
AnswerOfUncaught(outcome) == IF outcome = "ok" THEN AnswerCompletion ELSE "raise"

\* except Exception as e: answer = f"I found some memories, but ..."
AnswerOf(outcome) == IF outcome = "ok" THEN AnswerCompletion ELSE AnswerGenerationFailed

\* A request arrives: current_user, query.query and query.k.
QueryReceive(user_id, query, k) ==
    /\ q_pc = "idle"
    /\ q_pc' = "EMBEDDING"
    /\ q' = [NoQuery EXCEPT !.user_id = user_id, !.query = query, !.k = k]
    /\ UNCHANGED <<GROQ_API_KEY, collection, ret, cleared, pairVars, chunkVars,
                   handleVars, ingestVars, authVars>>

\* 1. query_vector = EmbeddingService.embed_query(query.query)
QueryEmbed ==
    /\ q_pc = "EMBEDDING"
    /\ q_pc' = "SEARCHING"
    /\ q' = [q EXCEPT !.query_vector = embed_query(q.query)]
    /\ UNCHANGED <<GROQ_API_KEY, collection, ret, cleared, pairVars, chunkVars,
                   handleVars, ingestVars, authVars>>

\* 2.-4. VectorStore.search, the SearchResult list and the choice of branch;
\* an error of the search leaves the handler as an unhandled exception.
QuerySearch ==
    /\ q_pc = "SEARCHING"
    /\ \E r \in {search(collection, q.user_id, q.query_vector, q.k)} :
          IF r.status = "error"
          THEN /\ q_pc' = "FAILED"
               /\ q' = [q EXCEPT !.status = 500]
          ELSE \E f \in {FormatResults(r.results)} :
                  /\ q_pc' = Branch(GROQ_API_KEY, f)
                  /\ q' = [q EXCEPT !.formatted_results = f]
    /\ UNCHANGED <<GROQ_API_KEY, collection, ret, cleared, pairVars, chunkVars,
                   handleVars, ingestVars, authVars>>

\* if not settings.GROQ_API_KEY: return AugmentedQueryResponse(...)
QueryNoCompletion ==
    /\ q_pc = "NO_COMPLETION_CONFIGURED"
    /\ q_pc' = "DONE"
    /\ q' = [q EXCEPT !.status = 200, !.answer = AnswerNoKey,
                      !.sources = q.formatted_results]
    /\ UNCHANGED <<GROQ_API_KEY, collection, ret, cleared, pairVars, chunkVars,
                   handleVars, ingestVars, authVars>>

\* if not formatted_results: return AugmentedQueryResponse(..., sources=[])
QueryNoResults ==
    /\ q_pc = "NO_RESULTS"
    /\ q_pc' = "DONE"
    /\ q' = [q EXCEPT !.status = 200, !.answer = AnswerNothingFound, !.sources = <<>>]
    /\ UNCHANGED <<GROQ_API_KEY, collection, ret, cleared, pairVars, chunkVars,
                   handleVars, ingestVars, authVars>>

\* The try block around the Groq client and its one completion call, and the
\* final return.
QuerySynthesize(outcome) ==
    /\ q_pc = "SYNTHESIZING"
    /\ \E a \in {AnswerOf(outcome)} :
          IF a = "raise"
          THEN /\ q_pc' = "FAILED"
               /\ q' = [q EXCEPT !.status = 500, !.outcome = outcome,
                                 !.calls = IF outcome = "client_error" THEN @ ELSE @ + 1]
          ELSE /\ q_pc' = "DONE"
               /\ q' = [q EXCEPT !.status = 200, !.answer = a, !.outcome = outcome,
                                 !.sources = q.formatted_results,
                                 !.calls = IF outcome = "client_error" THEN @ ELSE @ + 1]
    /\ UNCHANGED <<GROQ_API_KEY, collection, ret, cleared, pairVars, chunkVars,
                   handleVars, ingestVars, authVars>>

\* The response is sent; the handler keeps nothing.
QueryRespond ==
    /\ q_pc \in {"DONE", "FAILED"}
    /\ q_pc' = "idle"
    /\ q' = NoQuery
    /\ UNCHANGED <<GROQ_API_KEY, collection, ret, cleared, pairVars, chunkVars,
                   handleVars, ingestVars, authVars>>

\* The process starts with or without a completion credential.
InitQuery ==
    /\ AuthIdle
    /\ StoreInit
    /\ PairIdle
    /\ ChunkerIdle
    /\ HandleIdle
    /\ IngestIdle
    /\ GROQ_API_KEY \in {"", "gsk_key"}
    /\ q_pc = "idle"
    /\ q = NoQuery

\* The store changes between requests (a query reads it once, in its search):
\* the chunks of a document are added, or a tenant's records are deleted.
BetweenRequestsAdd(user_id, doc_id, texts) ==
    /\ q_pc = "idle"
    /\ Len(collection) + Len(texts) <= MaxRecords
    /\ collection' = add_vectors(collection, user_id, doc_id, texts,
                                 embed_documents(texts)).collection
    /\ UNCHANGED <<ret, cleared, pairVars, chunkVars, queryVars, handleVars, ingestVars, authVars>>

BetweenRequestsDelete(user_id) ==
    /\ q_pc = "idle"
    /\ collection' = delete_user_vectors(collection, user_id)
    /\ UNCHANGED <<ret, cleared, pairVars, chunkVars, queryVars, handleVars, ingestVars, authVars>>

NextQuery ==
    \/ \E u \in Users, d \in Docs, t \in TextLists \ {<<>>} : BetweenRequestsAdd(u, d, t)
    \/ \E u \in Users : BetweenRequestsDelete(u)
    \/ \E u \in Users, query \in Texts, k \in Ks : QueryReceive(u, query, k)
    \/ QueryEmbed
    \/ QuerySearch
    \/ QueryNoCompletion
    \/ QueryNoResults
    \/ \E outcome \in Completions : QuerySynthesize(outcome)
    \/ QueryRespond

SpecQuery == InitQuery /\ [][NextQuery]_vars

(***************************************************************************)
(* Two runs of the store that differ only in what tenant 2 does: tenant 1  *)
(* issues the same calls with the same arguments in both, tenant 2 adds    *)
(* and deletes in each run on its own.                                     *)
(***************************************************************************)
\* The tenant whose searches are compared, and the other tenant.
PairTenants == <<1, 2>>
Observer == PairTenants[1]
Other == PairTenants[2]

\* One store-changing call on a collection: its value afterwards.
StoreCall(col, op, user_id, doc_id, texts) ==
    IF op = "add"
    THEN add_vectors(col, user_id, doc_id, texts, embed_documents(texts)).collection
    ELSE IF op = "delete_document"
    THEN delete_document(col, user_id, doc_id)
    ELSE delete_user_vectors(col, user_id)

StoreOps == {"add", "delete_document", "delete_user_vectors"}

\* Tenant 2 works on the document id that tenant 1 uses too.
OtherDocs == {1}

\* The texts of a call: those of an add, none for a delete.
CallTexts(op) == IF op = "add" THEN TextLists \ {<<>>} ELSE {<<>>}

PairObserverCall(op, doc_id, texts) ==
    /\ Len(collection) + Len(texts) <= MaxRecords
    /\ Len(collection2) + Len(texts) <= MaxRecords
    /\ collection' = StoreCall(collection, op, Observer, doc_id, texts)
    /\ collection2' = StoreCall(collection2, op, Observer, doc_id, texts)
    /\ ret' = NoRet
    /\ ret2' = NoRet
    /\ UNCHANGED <<cleared, chunkVars, queryVars, handleVars, ingestVars, authVars>>

PairOtherCallRun1(op, doc_id, texts) ==
    /\ Len(collection) + Len(texts) <= MaxRecords
    /\ collection' = StoreCall(collection, op, Other, doc_id, texts)
    /\ ret' = NoRet
    /\ ret2' = NoRet
    /\ UNCHANGED <<collection2, cleared, chunkVars, queryVars, handleVars, ingestVars, authVars>>

PairOtherCallRun2(op, doc_id, texts) ==
    /\ Len(collection2) + Len(texts) <= MaxRecords
    /\ collection2' = StoreCall(collection2, op, Other, doc_id, texts)
    /\ ret' = NoRet
    /\ ret2' = NoRet
    /\ UNCHANGED <<collection, cleared, chunkVars, queryVars, handleVars, ingestVars, authVars>>

PairSearch(query, k) ==
    /\ \E r1 \in {search(collection, Observer, embed_query(query), k)},
          r2 \in {search(collection2, Observer, embed_query(query), k)} :
          /\ ret' = [NoRet EXCEPT !.op = "search", !.user_id = Observer, !.query = query,
                                  !.k = k, !.status = r1.status, !.results = r1.results]
          /\ ret2' = [NoRet EXCEPT !.op = "search", !.user_id = Observer, !.query = query,
                                   !.k = k, !.status = r2.status, !.results = r2.results]
    /\ UNCHANGED <<collection, collection2, cleared, chunkVars, queryVars,
                   handleVars, ingestVars, authVars>>

NextPair ==
    \/ \E op \in StoreOps, d \in Docs : \E t \in CallTexts(op) : PairObserverCall(op, d, t)
    \/ \E op \in StoreOps, d \in OtherDocs :
          \E t \in CallTexts(op) : PairOtherCallRun1(op, d, t)
    \/ \E op \in StoreOps, d \in OtherDocs :
          \E t \in CallTexts(op) : PairOtherCallRun2(op, d, t)
    \/ \E qt \in Texts, k \in Ks : PairSearch(qt, k)

SpecPair == Init /\ [][NextPair]_vars

(***************************************************************************)
(* VectorStore.get_collection, called by the store operations of requests  *)
(* that run on different worker threads                                    *)
(***************************************************************************)
\* collection = VectorStore.get_collection(): a thread enters the method.
GetCollectionCall(t) ==
    /\ gc[t].pc = "idle"
    /\ gc' = [gc EXCEPT ![t].pc = "check"]
    /\ UNCHANGED <<cls_client, cls_collection, opened, collection, ret, cleared,
                   pairVars, chunkVars, queryVars, ingestVars, authVars>>

\* if cls._client is None:
GetCollectionCheck(t) ==
    /\ gc[t].pc = "check"
    /\ gc' = [gc EXCEPT ![t].pc = IF cls_client = None THEN "client" ELSE "return"]
    /\ UNCHANGED <<cls_client, cls_collection, opened, collection, ret, cleared,
                   pairVars, chunkVars, queryVars, ingestVars, authVars>>

\* cls._client = chromadb.PersistentClient(path=settings.CHROMA_PERSIST_DIR)
GetCollectionClient(t) ==
    /\ gc[t].pc = "client"
    /\ cls_client' = opened.clients + 1
    /\ opened' = [opened EXCEPT !.clients = @ + 1]
    /\ gc' = [gc EXCEPT ![t].pc = "collection"]
    /\ UNCHANGED <<cls_collection, collection, ret, cleared,
                   pairVars, chunkVars, queryVars, ingestVars, authVars>>

\* cls._collection = cls._client.get_or_create_collection(name="user_memories", ...)
GetCollectionOpen(t) ==
    /\ gc[t].pc = "collection"
    /\ cls_collection' = opened.collections + 1
    /\ opened' = [opened EXCEPT !.collections = @ + 1]
    /\ gc' = [gc EXCEPT ![t].pc = "return"]
    /\ UNCHANGED <<cls_client, collection, ret, cleared,
                   pairVars, chunkVars, queryVars, ingestVars, authVars>>

\* return cls._collection
GetCollectionReturn(t) ==
    /\ gc[t].pc = "return"
    /\ gc' = [gc EXCEPT ![t].pc = "returned", ![t].value = cls_collection]
    /\ UNCHANGED <<cls_client, cls_collection, opened, collection, ret, cleared,
                   pairVars, chunkVars, queryVars, ingestVars, authVars>>

\* The caller goes on with the handle; the thread is free for another request.
GetCollectionDone(t) ==
    /\ gc[t].pc = "returned"
    /\ gc' = [gc EXCEPT ![t] = NoCall]
    /\ UNCHANGED <<cls_client, cls_collection, opened, collection, ret, cleared,
                   pairVars, chunkVars, queryVars, ingestVars, authVars>>

NextHandle ==
    \E t \in Threads :
        \/ GetCollectionCall(t)
        \/ GetCollectionCheck(t)
        \/ GetCollectionClient(t)
        \/ GetCollectionOpen(t)
        \/ GetCollectionReturn(t)
        \/ GetCollectionDone(t)

SpecHandle == Init /\ [][NextHandle]_vars

(***************************************************************************)
(* The ingest and delete endpoints (api/v1/endpoints/ingest.py) over the   *)
(* documents table and the collection.  ingest_document is a coroutine     *)
(* without an await: one runs at a time, on the event loop.  The delete    *)
(* endpoints are plain functions: they run on a worker thread, at any      *)
(* point of a running ingest.                                              *)
(***************************************************************************)
\* doc_in.content: the prefixes of one text, the empty one included.
IngestContents ==
    {[i \in 1..n |-> IF i % 2 = 1 THEN "a" ELSE "b"] : n \in 0..MaxContentLen}

\* while start < len(text): chunks.append(text[start:end]); start += ...
RECURSIVE ChunksFrom(_, _, _, _)
ChunksFrom(text, start, chunk_size, overlap) ==
    IF start < Len(text)
    THEN <<Window(text, start, chunk_size)>>
            \o ChunksFrom(text, Advance(start, chunk_size, overlap), chunk_size, overlap)
    ELSE <<>>

simple_chunker(text, chunk_size, overlap) ==
    IF text = <<>> THEN <<>> ELSE ChunksFrom(text, 0, chunk_size, overlap)

\* chunks = simple_chunker(doc_in.content): the default chunk size and overlap,
\* scaled to the contents of the model.
IngestChunks(content) == simple_chunker(content, ChunkSizeScaled, OverlapScaled)

\* The id SQLite gives a new row of documents: one more than the largest.
NextDocumentId(rows) ==
    IF rows = {} THEN 1
    ELSE (CHOOSE r \in rows : \A o \in rows : o.id <= r.id).id + 1

\* Document(title=..., content=doc_in.content, user_id=current_user.id)
DocumentRow(id, user_id, content) == [id |-> id, user_id |-> user_id, content |-> content]

\* The persistent storage of the collection, at the time of a write.
Storage == {"available", "unavailable"}

\* Faulty variant: a write that fails after it has stored the first chunk.
IndexWritePartial(col, user_id, doc_id, texts, embeddings, storage) ==
    IF storage = "unavailable" /\ Len(texts) > 0
    THEN [status |-> "error",
          collection |-> add_vectors(col, user_id, doc_id, SubSeq(texts, 1, 1),
                                     SubSeq(embeddings, 1, 1)).collection]
    ELSE add_vectors(col, user_id, doc_id, texts, embeddings)

\* VectorStore.add_vectors as ingest_document calls it: the one collection.add
\* for all chunks raises when the storage is unavailable and writes nothing.
IndexWrite(col, user_id, doc_id, texts, embeddings, storage) ==
    IF storage = "unavailable" /\ Len(texts) > 0
    THEN [status |-> "error", collection |-> col]
    ELSE add_vectors(col, user_id, doc_id, texts, embeddings)

\* The names bound in the module ingest.py by its import statements.
ImportedNames == {"List", "APIRouter", "Depends", "Session", "database", "security",
                  "User", "Document", "DocumentCreate", "DocumentResponse",
                  "EmbeddingService", "VectorStore"}

\* raise <name>(status_code=..., detail=...): the response of the framework.
\* An unbound name raises NameError, answered as an internal server error.
Raise(name, status_code, detail) ==
    IF name \in ImportedNames
    THEN [status |-> status_code, detail |-> detail]
    ELSE [status |-> 500, detail |-> "Internal Server Error"]

\* The add_vectors calls that still have a record in the collection.
LiveBatches(bs, col) == {b \in bs : \E i \in 1..Len(col) : col[i].id \in b.ids}

\* POST /documents arrives: current_user and doc_in.content.
IngestReceive(user_id, content) ==
    /\ ing.pc = "idle"
    /\ NextDocumentId(db_documents) \in Docs
    /\ Len(collection) + Len(IngestChunks(content)) <= MaxIndexed
    /\ ing' = [NoIngest EXCEPT !.pc = "persist", !.user_id = user_id, !.content = content]
    /\ UNCHANGED <<db_documents, del, batches, collection, ret, cleared,
                   pairVars, chunkVars, queryVars, handleVars, authVars>>

\* 1. db.add(db_doc); db.commit(); db.refresh(db_doc)
IngestPersist ==
    /\ ing.pc = "persist"
    /\ \E id \in {NextDocumentId(db_documents)} :
          /\ db_documents' = db_documents \cup {DocumentRow(id, ing.user_id, ing.content)}
          /\ ing' = [ing EXCEPT !.pc = "index", !.doc_id = id]
    /\ UNCHANGED <<del, batches, collection, ret, cleared,
                   pairVars, chunkVars, queryVars, handleVars, authVars>>

\* 2.-4. simple_chunker, embed_documents and VectorStore.add_vectors; an error
\* of the write leaves the handler as an unhandled exception.
IngestIndex(storage) ==
    /\ ing.pc = "index"
    /\ \E chunks \in {IngestChunks(ing.content)} :
       \E r \in {IndexWrite(collection, ing.user_id, ing.doc_id, chunks,
                            embed_documents(chunks), storage)} :
          /\ collection' = r.collection
          /\ ing' = [ing EXCEPT !.pc = IF r.status = "ok" THEN "DONE" ELSE "FAILED",
                                !.status = IF r.status = "ok" THEN 200 ELSE 500]
          /\ batches' = LiveBatches(
                 IF r.status = "ok"
                 THEN batches \cup {[ids |-> {<<ing.user_id, ing.doc_id,
                                                uuid4(collection, ing.user_id, ing.doc_id, i)>> :
                                                  i \in 1..Len(chunks)},
                                     n |-> Len(chunks)]}
                 ELSE batches, r.collection)
    /\ UNCHANGED <<db_documents, del, ret, cleared,
                   pairVars, chunkVars, queryVars, handleVars, authVars>>

\* return db_doc, or the error response.
IngestRespond ==
    /\ ing.pc \in {"DONE", "FAILED"}
    /\ ing' = NoIngest
    /\ UNCHANGED <<db_documents, del, batches, collection, ret, cleared,
                   pairVars, chunkVars, queryVars, handleVars, authVars>>

DeleteKinds == {"delete_document", "delete_all_documents"}

\* DELETE /documents/{doc_id} or DELETE /documents arrives.
DeleteReceive(kind, user_id, doc_id) ==
    /\ del.pc = "idle"
    /\ del' = [NoDelete EXCEPT !.pc = IF kind = "delete_document" THEN "lookup" ELSE "vectors",
                               !.kind = kind, !.user_id = user_id,
                               !.doc_id = IF kind = "delete_document" THEN doc_id ELSE 0]
    /\ UNCHANGED <<db_documents, ing, batches, collection, ret, cleared,
                   pairVars, chunkVars, queryVars, handleVars, authVars>>

\* db_doc = db.query(Document).filter(id == doc_id, user_id == current_user.id).first()
\* if not db_doc: raise HTTPException(status_code=404, detail="Document not found")
DeleteDocumentLookup ==
    /\ del.pc = "lookup"
    /\ IF \E row \in db_documents : row.id = del.doc_id /\ row.user_id = del.user_id
       THEN del' = [del EXCEPT !.pc = "vectors"]
       ELSE \E e \in {Raise("HTTPException", 404, "Document not found")} :
               del' = [del EXCEPT !.pc = "FAILED", !.status = e.status, !.detail = e.detail]
    /\ UNCHANGED <<db_documents, ing, batches, collection, ret, cleared,
                   pairVars, chunkVars, queryVars, handleVars, authVars>>

\* VectorStore.delete_document(user_id=current_user.id, doc_id=doc_id)
DeleteDocumentVectors ==
    /\ del.pc = "vectors"
    /\ del.kind = "delete_document"
    /\ collection' = delete_document(collection, del.user_id, del.doc_id)
    /\ batches' = LiveBatches(batches, collection')
    /\ del' = [del EXCEPT !.pc = "rows"]
    /\ UNCHANGED <<db_documents, ing, ret, cleared,
                   pairVars, chunkVars, queryVars, handleVars, authVars>>

\* db.delete(db_doc); db.commit(); return {"status": "success"}
DeleteDocumentRows ==
    /\ del.pc = "rows"
    /\ del.kind = "delete_document"
    /\ db_documents' = {row \in db_documents : row.id # del.doc_id}
    /\ del' = [del EXCEPT !.pc = "DONE", !.status = 200]
    /\ UNCHANGED <<ing, batches, collection, ret, cleared,
                   pairVars, chunkVars, queryVars, handleVars, authVars>>

\* 1. VectorStore.delete_user_vectors(user_id=current_user.id)
DeleteAllVectors ==
    /\ del.pc = "vectors"
    /\ del.kind = "delete_all_documents"
    /\ collection' = delete_user_vectors(collection, del.user_id)
    /\ batches' = LiveBatches(batches, collection')
    /\ del' = [del EXCEPT !.pc = "rows"]
    /\ UNCHANGED <<db_documents, ing, ret, cleared,
                   pairVars, chunkVars, queryVars, handleVars, authVars>>

\* 2. db.query(Document).filter(Document.user_id == current_user.id).delete(); db.commit()
DeleteAllRows ==
    /\ del.pc = "rows"
    /\ del.kind = "delete_all_documents"
    /\ db_documents' = {row \in db_documents : row.user_id # del.user_id}
    /\ del' = [del EXCEPT !.pc = "DONE", !.status = 200]
    /\ UNCHANGED <<ing, batches, collection, ret, cleared,
                   pairVars, chunkVars, queryVars, handleVars, authVars>>

\* The response is sent; the worker thread is free.
DeleteRespond ==
    /\ del.pc \in {"DONE", "FAILED"}
    /\ del' = NoDelete
    /\ UNCHANGED <<db_documents, ing, batches, collection, ret, cleared,
                   pairVars, chunkVars, queryVars, handleVars, authVars>>

NextIngest ==
    \/ \E u \in Users, content \in IngestContents : IngestReceive(u, content)
    \/ IngestPersist
    \/ \E storage \in Storage : IngestIndex(storage)
    \/ IngestRespond
    \/ \E kind \in DeleteKinds, u \in Users, d \in Docs : DeleteReceive(kind, u, d)
    \/ DeleteDocumentLookup
    \/ DeleteDocumentVectors
    \/ DeleteDocumentRows
    \/ DeleteAllVectors
    \/ DeleteAllRows
    \/ DeleteRespond

SpecIngest == Init /\ [][NextIngest]_vars

(***************************************************************************)
(* The signup and login endpoints (api/v1/endpoints/auth.py).  Both are    *)
(* plain functions: each request runs on a worker thread, next to others.  *)
(***************************************************************************)
Emails == {"ann@example.com", "bob@example.com"}
Passwords == {"password123", "hunter2"}

\* security.get_password_hash(password): a hash that names its scheme.
get_password_hash(password) == [scheme |-> "argon2", of |-> password]

\* security.verify_password(plain_password, hashed_password)
verify_password(plain_password, hashed_password) ==
    hashed_password.scheme = "argon2" /\ hashed_password.of = plain_password

\* db.query(User).filter(User.email == email): the rows with this email.
UsersWithEmail(rows, email) == {u \in rows : u.email = email}

\* The id a new row of users gets: one more than the largest.
NextUserId(rows) ==
    IF rows = {} THEN 1
    ELSE (CHOOSE r \in rows : \A o \in rows : o.id <= r.id).id + 1

\* POST /auth/signup arrives: user.email and user.password.
SignupReceive(t, email, password) ==
    /\ su[t].pc = "idle"
    /\ Cardinality(users) + Cardinality({w \in SignupWorkers : su[w].pc # "idle"}) < MaxUsers
    /\ su' = [su EXCEPT ![t] = [NoSignup EXCEPT !.pc = "lookup", !.email = email,
                                                 !.password = password]]
    /\ UNCHANGED <<users, email_unique, lg, registered, collection, ret, cleared,
                   pairVars, chunkVars, queryVars, handleVars, ingestVars>>

\* db_user = db.query(User).filter(User.email == user.email).first()
\* if db_user: raise HTTPException(status_code=400, detail="Email already registered")
SignupLookup(t) ==
    /\ su[t].pc = "lookup"
    /\ IF UsersWithEmail(users, su[t].email) # {}
       THEN su' = [su EXCEPT ![t].pc = "DONE", ![t].status = 400,
                             ![t].detail = "Email already registered"]
       ELSE su' = [su EXCEPT ![t].pc = "insert"]
    /\ UNCHANGED <<users, email_unique, lg, registered, collection, ret, cleared,
                   pairVars, chunkVars, queryVars, handleVars, ingestVars>>

\* new_user = User(email=..., hashed_password=...); db.add(new_user); db.commit()
\* db.refresh(new_user); return new_user.  A table with a unique email
\* refuses the commit of a second row; the error leaves the handler as an
\* unhandled exception.
SignupInsert(t) ==
    /\ su[t].pc = "insert"
    /\ IF email_unique /\ UsersWithEmail(users, su[t].email) # {}
       THEN /\ su' = [su EXCEPT ![t].pc = "DONE", ![t].status = 500,
                                ![t].detail = "Internal Server Error"]
            /\ UNCHANGED <<users, registered>>
       ELSE \E id \in {NextUserId(users)} :
               /\ users' = users \cup {[id |-> id, email |-> su[t].email,
                                         hashed_password |-> get_password_hash(su[t].password)]}
               /\ su' = [su EXCEPT ![t].pc = "DONE", ![t].status = 200, ![t].created = id]
               /\ registered' = registered \cup
                                   {[email |-> su[t].email, password |-> su[t].password]}
    /\ UNCHANGED <<email_unique, lg, collection, ret, cleared,
                   pairVars, chunkVars, queryVars, handleVars, ingestVars>>

\* The response is sent; the worker thread is free.
SignupRespond(t) ==
    /\ su[t].pc = "DONE"
    /\ su' = [su EXCEPT ![t] = NoSignup]
    /\ UNCHANGED <<users, email_unique, lg, registered, collection, ret, cleared,
                   pairVars, chunkVars, queryVars, handleVars, ingestVars>>

\* POST /auth/login: user = db.query(User).filter(email == username).first();
\* 401 if there is no user or the password does not verify, else a token.
\* The query has no ORDER BY: with several rows, first() is any of them.
Login(email, password) ==
    /\ IF UsersWithEmail(users, email) = {}
       THEN lg' = [NoLogin EXCEPT !.email = email, !.password = password, !.status = 401]
       ELSE \E user \in UsersWithEmail(users, email) :
               lg' = [email |-> email, password |-> password,
                      status |-> IF verify_password(password, user.hashed_password)
                                 THEN 200 ELSE 401,
                      known |-> [email |-> email, password |-> password] \in registered]
    /\ UNCHANGED <<users, email_unique, su, registered, collection, ret, cleared,
                   pairVars, chunkVars, queryVars, handleVars, ingestVars>>

\* The process starts over an empty users table, with either schema.
InitAuth ==
    /\ StoreInit
    /\ PairIdle
    /\ ChunkerIdle
    /\ QueryIdle
    /\ HandleIdle
    /\ IngestIdle
    /\ users = {}
    /\ email_unique \in BOOLEAN
    /\ su = [t \in SignupWorkers |-> NoSignup]
    /\ lg = NoLogin
    /\ registered = {}

NextAuth ==
    \/ \E t \in SignupWorkers, email \in Emails, password \in Passwords :
          SignupReceive(t, email, password)
    \/ \E t \in SignupWorkers : SignupLookup(t)
    \/ \E t \in SignupWorkers : SignupInsert(t)
    \/ \E t \in SignupWorkers : SignupRespond(t)
    \/ \E email \in Emails, password \in Passwords : Login(email, password)

SpecAuth == InitAuth /\ [][NextAuth]_vars

(***************************************************************************)
(* Properties of the store                                                 *)
(***************************************************************************)
HasRecords(col, user_id) == \E i \in 1..Len(col) : col[i].metadata.user_id = user_id

\* C1: every record a search for tenant A returns carries tenant_id A, after
\* any sequence of add, delete_document and delete_tenant calls by any tenants.
C1_SearchIsTenantScoped ==
    ret.op = "search" =>
        \A n \in DOMAIN ret.results.metadatas :
            ret.results.metadatas[n].user_id = ret.user_id

\* A search has returned a record while another tenant stores the same text.
C1_Witness ==
    /\ ret.op = "search"
    /\ Len(ret.results.ids) >= 1
    /\ \E i \in 1..Len(collection) :
          /\ collection[i].metadata.user_id # ret.user_id
          /\ collection[i].document = ret.results.documents[1]

\* What a search hands back apart from the ids, which carry a random part.
Content(r) == [status |-> r.status, documents |-> r.results.documents,
               distances |-> r.results.distances, metadatas |-> r.results.metadatas]

\* C2: the result of a search for tenant 1, its size and its content, is the
\* same in two runs that differ only in tenant 2's ingest and delete calls.
C2_SearchUnaffectedByOtherTenant ==
    ret.op = "search" => Content(ret) = Content(ret2)

\* Tenant 1's search has returned records in both runs while the runs hold
\* different records of tenant 2, one of them with a text tenant 1 got back.
C2_Witness ==
    /\ ret.op = "search"
    /\ Len(ret.results.ids) >= 1
    /\ Len(ret2.results.ids) >= 1
    /\ collection # collection2
    /\ \E i \in 1..Len(collection) :
          /\ collection[i].metadata.user_id = Other
          /\ collection[i].document = ret.results.documents[1]

\* C8: a search returns an empty sequence and raises no error whenever the
\* tenant has no records or k <= 0.
C8_EmptySearchIsNotAnError ==
    (ret.op = "search" /\ (~HasRecords(collection, ret.user_id) \/ ret.k <= 0)) =>
        (ret.status = "ok" /\ ret.results = NoResults)

\* C9: an add whose texts and embeddings differ in length is rejected with a
\* validation error and leaves the records of the index unchanged.
C9_MismatchedAddIsRejected ==
    [][(ret'.op = "add" /\ ret'.ntexts # ret'.nembeddings) =>
          (ret'.status = "error" /\ collection' = collection)]_vars

\* C10: from the completion of delete_tenant(A) until the next add for A,
\* every search for A returns an empty sequence, for every query and every k.
C10_SearchAfterDeleteTenantIsEmpty ==
    (ret.op = "search" /\ ret.user_id \in cleared) =>
        (ret.status = "ok" /\ ret.results = NoResults)

\* C11: a second delete_document(tenant, document) for the same id raises no
\* error and leaves the index exactly as it was after the first call.
C11_DeleteDocumentIsIdempotent ==
    [][(ret'.op = "delete_document" /\ ret'.repeat_of >= 0) =>
          (ret'.status = "ok" /\ collection' = collection)]_vars

\* A delete_document has been repeated after the first call removed a record,
\* while a record of another document or tenant stays in the index.
C11_Witness ==
    /\ ret.op = "delete_document"
    /\ ret.repeat_of >= 1
    /\ collection # <<>>

\* The records of a collection that a delete with these arguments must keep.
Kept(col, user_id, doc_id) ==
    {i \in 1..Len(col) :
        col[i].metadata.user_id # user_id \/ col[i].metadata.doc_id # doc_id}

\* C15: delete_document(tenant, document) removes exactly the records whose
\* tenant_id and document_id both match and leaves every other record as it
\* was, in its place among the others; when none match the index is
\* unchanged; no error is raised.
C15_DeleteDocumentRemovesExactlyMatching ==
    [][ret'.op = "delete_document" =>
          /\ ret'.status = "ok"
          /\ Len(collection') = Cardinality(Kept(collection, ret'.user_id, ret'.doc_id))
          /\ \A i \in Kept(collection, ret'.user_id, ret'.doc_id) :
                \E j \in 1..Len(collection') :
                    /\ collection'[j] = collection[i]
                    /\ j = Cardinality({m \in Kept(collection, ret'.user_id, ret'.doc_id) :
                                            m <= i})
          /\ (Kept(collection, ret'.user_id, ret'.doc_id) = 1..Len(collection)) =>
                collection' = collection]_vars

\* A delete_document has removed a record and kept the record that another
\* tenant holds under the same document id.
C15_Witness ==
    /\ ret.op = "delete_document"
    /\ ret.removed >= 1
    /\ \E i \in 1..Len(collection) :
          /\ collection[i].metadata.doc_id = ret.doc_id
          /\ collection[i].metadata.user_id # ret.user_id

(***************************************************************************)
(* Properties of the query endpoint                                        *)
(***************************************************************************)
\* What the store hands a search with the request's arguments; the store does
\* not change while the request is in flight.
SearchNow == search(collection, q.user_id, embed_query(q.query), q.k)

\* C5: a query against a tenant with zero ingested documents returns the
\* fixed "nothing found" answer and an empty sources list, whether or not a
\* completion credential is configured.
C5_NoDocumentsGivesNothingFound ==
    (q_pc = "DONE" /\ ~HasRecords(collection, q.user_id)) =>
        (q.answer = AnswerNothingFound /\ q.sources = <<>>)

\* C5 as amended: against a tenant with no records a query with k >= 1
\* returns an empty sources list, with the "nothing found" answer when a
\* credential is configured and the degraded-mode answer when none is; with
\* k <= 0 the search raises and the request fails.
C5_NoDocumentsAnswerByCredential ==
    (q_pc \in {"DONE", "FAILED"} /\ ~HasRecords(collection, q.user_id)) =>
        IF q.k <= 0
        THEN q_pc = "FAILED"
        ELSE /\ q_pc = "DONE"
             /\ q.status = 200
             /\ q.sources = <<>>
             /\ q.calls = 0
             /\ q.answer = IF GROQ_API_KEY = "" THEN AnswerNoKey ELSE AnswerNothingFound

\* A query with a credential configured has answered "nothing found" for a
\* tenant without records while the other tenant has some.
C5_Witness ==
    /\ q_pc = "DONE"
    /\ GROQ_API_KEY # ""
    /\ ~HasRecords(collection, q.user_id)
    /\ collection # <<>>
    /\ q.answer = AnswerNothingFound

\* C6: with no credential configured a query returns the degraded-mode answer
\* and exactly the search result as sources, calls no completion service and
\* raises no error; sources is non-empty when the tenant has records and k >= 1.
C6_DegradedModeReturnsSearchResult ==
    (q_pc \in {"DONE", "FAILED"} /\ GROQ_API_KEY = "") =>
        /\ q_pc = "DONE"
        /\ q.status = 200
        /\ q.answer = AnswerNoKey
        /\ q.sources = FormatResults(SearchNow.results)
        /\ q.calls = 0
        /\ (HasRecords(collection, q.user_id) /\ q.k >= 1) => q.sources # <<>>

\* C7: when the completion call fails the query still answers: it returns the
\* search results unchanged and in order, with an answer that discloses the
\* generation failure.
C7_CompletionFailureKeepsSources ==
    (q_pc \in {"DONE", "FAILED"} /\ q.outcome \in Completions \ {"ok"}) =>
        /\ q_pc = "DONE"
        /\ q.status = 200
        /\ q.answer = AnswerGenerationFailed
        /\ q.sources = FormatResults(SearchNow.results)
        /\ q.sources # <<>>

\* A failed completion, answered with two sources at different distances.
C7_Witness ==
    /\ q_pc = "DONE"
    /\ q.outcome = "api_error"
    /\ Len(q.sources) = 2
    /\ q.sources[1].score < q.sources[2].score

QueryBranches == {"NO_COMPLETION_CONFIGURED", "NO_RESULTS", "SYNTHESIZING"}

\* C17: every query goes from EMBEDDING to SEARCHING, from there to exactly
\* one of NO_COMPLETION_CONFIGURED, NO_RESULTS and SYNTHESIZING, and from there
\* to DONE; the completion service is invoked at most once per query, only in
\* SYNTHESIZING, after the search, and never with zero search results.
C17_QueryLifecycle ==
    [][/\ q_pc = "EMBEDDING" => q_pc' = "SEARCHING"
       /\ q_pc = "SEARCHING" => q_pc' \in QueryBranches
       /\ q_pc \in QueryBranches => q_pc' = "DONE"
       /\ q_pc' = "DONE" => q_pc \in QueryBranches
       /\ q'.calls > q.calls =>
             /\ q_pc = "SYNTHESIZING"
             /\ q.calls = 0
             /\ q'.calls = 1
             /\ q.formatted_results # <<>>]_vars

(***************************************************************************)
(* Properties of the chunker                                               *)
(***************************************************************************)
RECURSIVE Concat(_)
Concat(seqs) == IF seqs = <<>> THEN <<>> ELSE Head(seqs) \o Concat(Tail(seqs))

\* The first chunk whole, every later chunk without its first overlap characters.
WithoutOverlaps(chunks, overlap) ==
    [i \in 1..Len(chunks) |->
        IF i = 1 THEN chunks[i] ELSE SubSeq(chunks[i], overlap + 1, Len(chunks[i]))]

ValidChunking == ch_text # <<>> /\ ch_size > ch_overlap /\ ch_overlap >= 0

\* Where the last chunk ends in the text: its start, the cursor before the
\* last advance, plus its length.
LastChunkEnd ==
    (ch_start - (ch_size - ch_overlap)) + Len(ch_chunks[Len(ch_chunks)])

\* C3: for a non-empty text and chunk_size - overlap <= 0 the chunker fails
\* fast with a configuration error: it runs no pass of its loop, so it appends
\* no chunk, and it does not return a list of chunks.
C3_NonAdvancingChunkerFailsFast ==
    (ch_text # <<>> /\ ch_size - ch_overlap <= 0) =>
        (ch_chunks = <<>> /\ ch_pc # "returned")

\* C4: for a non-empty text and chunk_size > overlap >= 0 the chunker
\* returns, the chunks with the overlaps removed concatenate to the text, and
\* the last chunk ends at len(text).
C4_ChunksReconstructText ==
    /\ ValidChunking => <>(ch_pc = "returned")
    /\ [](ValidChunking /\ ch_pc = "returned" =>
            /\ Concat(WithoutOverlaps(ch_chunks, ch_overlap)) = ch_text
            /\ LastChunkEnd = Len(ch_text))

\* A returned call on a text longer than one window, with an overlap, whose
\* last chunk is shorter than the window.
C4_Witness ==
    /\ ValidChunking
    /\ ch_pc = "returned"
    /\ ch_overlap >= 1
    /\ Len(ch_chunks) >= 3
    /\ Len(ch_chunks[Len(ch_chunks)]) < ch_size

(***************************************************************************)
(* Properties of get_collection                                            *)
(***************************************************************************)
\* C12: under any interleaving of concurrent first calls the persistent
\* client and the collection are created at most once per process.
C12_CollectionCreatedAtMostOnce ==
    opened.clients <= 1 /\ opened.collections <= 1

\* C18: every call of get_collection returns the opened collection handle,
\* never None, whatever the other callers are doing.
C18_GetCollectionNeverReturnsNone ==
    \A t \in Threads : gc[t].pc = "returned" => gc[t].value # None

(***************************************************************************)
(* Properties of the ingest and delete endpoints                           *)
(***************************************************************************)
\* The positions of the records in a collection that carry one of these ids.
RecordsOf(col, ids) == {i \in 1..Len(col) : col[i].id \in ids}

\* C13: in every reachable state, also while a delete runs next to an ingest
\* and after an add has failed, the index holds of each add call either all
\* chunks or none: every record belongs to an add call whose chunks, with the
\* chunk indexes 0..n-1, are all in the index.
C13_AddIsAllOrNothing ==
    /\ \A i \in 1..Len(collection) : \E b \in batches : collection[i].id \in b.ids
    /\ \A b \in batches :
          /\ Cardinality(RecordsOf(collection, b.ids)) = b.n
          /\ {collection[i].metadata.chunk_index : i \in RecordsOf(collection, b.ids)}
                = 0..(b.n - 1)

\* An add of two chunks has failed while the index holds the records of an
\* earlier add and a delete request is at work.
C13_Witness ==
    /\ ing.pc = "FAILED"
    /\ Len(IngestChunks(ing.content)) = 2
    /\ collection # <<>>
    /\ del.pc \in {"vectors", "rows"}

\* The texts the index holds for a document, in insertion order.
IndexedTexts(col, user_id, doc_id) ==
    LET F == SelectSeq(col, LAMBDA r : r.metadata.user_id = user_id
                                        /\ r.metadata.doc_id = doc_id)
    IN  [i \in 1..Len(F) |-> F[i].document]

\* Every record of the index belongs to a row of documents with its owner.
NoOrphanVectors ==
    \A i \in 1..Len(collection) :
        \E row \in db_documents :
            /\ row.id = collection[i].metadata.doc_id
            /\ row.user_id = collection[i].metadata.user_id

\* C14: once an ingest request has finished, with success or with a failure,
\* the documents table holds no document whose content is not indexed and
\* the index holds no records without their document.
C14_FinishedIngestIsConsistent ==
    ing.pc \in {"DONE", "FAILED"} =>
        /\ \A row \in db_documents :
              IndexedTexts(collection, row.user_id, row.id) = IngestChunks(row.content)
        /\ NoOrphanVectors

\* C16: a successful ingest appends one record per chunk of the content (none
\* for an empty content), each with the tenant and the document of the
\* request; the chunk indexes of the new records are 0..n-1, each once, the
\* record with index i holds chunk i; the records before are unchanged.
C16_IngestAddsOneRecordPerChunk ==
    [][(ing.pc = "index" /\ ing'.pc = "DONE") =>
          LET chunks == IngestChunks(ing.content)
              before == Len(collection)
              added == (before + 1)..Len(collection')
          IN  /\ ing'.status = 200
              /\ Len(collection') = before + Len(chunks)
              /\ ing.content = <<>> => collection' = collection
              /\ SubSeq(collection', 1, before) = collection
              /\ \A i \in 0..(Len(chunks) - 1) :
                    Cardinality({j \in added : collection'[j].metadata.chunk_index = i}) = 1
              /\ \A j \in added :
                    /\ collection'[j].metadata.user_id = ing.user_id
                    /\ collection'[j].metadata.doc_id = ing.doc_id
                    /\ collection'[j].metadata.chunk_index \in 0..(Len(chunks) - 1)
                    /\ collection'[j].document =
                          chunks[collection'[j].metadata.chunk_index + 1]]_vars

\* An ingest of a content of two different chunks has succeeded in an index
\* that held a record before.
C16_Witness ==
    /\ ing.pc = "DONE"
    /\ Len(IngestChunks(ing.content)) = 2
    /\ IngestChunks(ing.content)[1] # IngestChunks(ing.content)[2]
    /\ Len(collection) = 3
    /\ collection[3].metadata = Metadata(ing.user_id, ing.doc_id, 1)

\* C19: whenever no ingest and no delete request is in flight, every record
\* of the index belongs to a document of the documents table with the same
\* owner.
C19_NoOrphanVectorsAtRest ==
    (ing.pc = "idle" /\ del.pc = "idle") => NoOrphanVectors

\* C20: a delete-document request for an id that does not exist or belongs
\* to another user is answered 404 "Document not found" and removes no
\* record and no row.
C20_DeleteUnknownDocumentIs404 ==
    [][(/\ del.pc = "lookup"
        /\ del'.pc # "lookup"
        /\ ~\E row \in db_documents : row.id = del.doc_id /\ row.user_id = del.user_id) =>
          /\ del'.pc = "FAILED"
          /\ del'.status = 404
          /\ del'.detail = "Document not found"
          /\ collection' = collection
          /\ db_documents' = db_documents]_vars

(***************************************************************************)
(* Properties of the signup and login endpoints                            *)
(***************************************************************************)
\* C21: after any interleaving of signups at most one user exists per email;
\* a signup that finishes while another user holds its email is answered
\* 400 "Email already registered" and has created no user; a login with the
\* credentials of a successful signup succeeds.
C21_OneUserPerEmail ==
    /\ \A u1 \in users, u2 \in users : u1.email = u2.email => u1 = u2
    /\ \A t \in SignupWorkers :
          (/\ su[t].pc = "DONE"
           /\ \E u \in users : u.email = su[t].email /\ u.id # su[t].created) =>
              /\ su[t].status = 400
              /\ su[t].detail = "Email already registered"
              /\ su[t].created = 0
    /\ lg.known => lg.status = 200

=============================================================================
